---- MODULE Spec2Model ----
(***************************************************************************)
(* Model of the Rust binding layer of ustore (rust/src/lib.rs,             *)
(* rust/src/error.rs) and of its build script (rust/build.rs).             *)
(*                                                                         *)
(* Spec      : the run-time handle lifecycle (Database::new, ::default,    *)
(*             ::close, ::contains_key and a Database leaving scope).      *)
(* BuildSpec : one run of build.rs main().                                 *)
(***************************************************************************)
EXTENDS Integers, Sequences, FiniteSets, TLC

VARIABLES
    databases,   \* the Database values constructed so far (lib.rs:13-15)
    calls,       \* the calls that reached the native engine, in order
    nativeOpen,  \* handles the native engine has allocated and not freed
    crashed,     \* the process died inside a native call
    last,        \* what the last constructor or close() returned to its caller
    flags,       \* cargo features enabled for this build (cfg!(feature = ..))
    profile,     \* host build profile (cargo PROFILE)
    header,      \* state of wrapper.expanded.h on disk
    pc,          \* position of build.rs main()
    ran,         \* build steps that were executed, in order
    status,      \* exit status of each external command that ran
    cmakeArgs,   \* -D definitions handed to cmake
    makeArgs,    \* arguments handed to make
    cpus,        \* num_cpus::get() on the build host
    stdoutLines, \* cargo: directives printed by the build script
    bindingsFile \* OUT_DIR/bindings.rs

rtVars == <<databases, calls, nativeOpen, crashed, last>>
buildVars == <<flags, profile, header, pc, ran, status, cmakeArgs, makeArgs,
               cpus, stdoutLines, bindingsFile>>
vars == <<databases, calls, nativeOpen, crashed, last, flags, profile, header,
          pc, ran, status, cmakeArgs, makeArgs, cpus, stdoutLines, bindingsFile>>

----------------------------------------------------------------------------
(* Bounds *)

MaxDatabases == 2   \* Database values constructed in one run
MaxCalls == 3       \* native calls in one run
MaxUnitAddrs == 2   \* distinct addresses a `&mut ()` temporary may get
MaxCpus == 2        \* cores of the build host

----------------------------------------------------------------------------
(* Pointers.  Every raw pointer is a record [kind, id]:                    *)
(*   null    the null pointer                                              *)
(*   unit    address of a `&mut ()` temporary                              *)
(*   cstr    buffer of a CString (dropped or not, see the call sites)      *)
(*   slot    address of the error-output slot of the id-th init            *)
(*   handle  an opaque database allocated by the native engine             *)
(*   errmsg  a native error string                                         *)

Ptr(k, i) == [kind |-> k, id |-> i]
Null == Ptr("null", 0)
UnitAddrs == {Ptr("unit", i) : i \in 1..MaxUnitAddrs}
Handle(i) == Ptr("handle", i)
NativeErrorString == Ptr("errmsg", 1)

IsHandle(p) == p.kind = "handle"

----------------------------------------------------------------------------
(* The native engine, as far as the binding layer sees it.                 *)

\* Handles the engine has handed out so far.
IssuedHandles == {calls[i].out : i \in {j \in 1..Len(calls) :
                     calls[j].fn = "init" /\ IsHandle(calls[j].out)}}

\* ukv_database_init(&mut req): the possible responses to a request whose
\* handle-output slot holds req.db and whose error-output slot holds errIn.
\* Success: a fresh handle is written to the handle slot; the error slot is
\* left as it was (or reset).  Failure: an error string is written to the
\* error slot; the handle slot is left as it was (or reset).
ukv_database_init(req, errIn) ==
    LET fresh == Handle(Cardinality(IssuedHandles) + 1) IN
    {[ok |-> TRUE, db |-> fresh, err |-> e] : e \in {errIn, Null}}
    \cup
    {[ok |-> FALSE, db |-> d, err |-> NativeErrorString] : d \in {req.db, Null}}

\* ukv_database_free(p): releases p when p is an allocated handle.
ukv_database_free(p) == nativeOpen \ {p}

\* A native call as the engine saw it, and the host function that made it
\* (by).  For an init call: the pointers of
\* the request (arg is the handle slot as passed in, config, error), what the
\* error slot held on entry (errIn), the pointers among them whose storage
\* was allocated during the call (live), and what the engine left behind: the
\* handle it issued (out), the handle slot (slot) and the error slot (err).
InitCall(via, req, errIn, live, resp) ==
    [fn |-> "init", by |-> via, arg |-> req.db, config |-> req.config, error |-> req.error,
     errIn |-> errIn, live |-> live,
     out |-> IF resp.ok THEN resp.db ELSE Null, slot |-> resp.db,
     err |-> resp.err]
FreeCall(p) ==
    [fn |-> "free", by |-> "close", arg |-> p, config |-> Null, error |-> Null, errIn |-> Null,
     live |-> {p}, out |-> Null, slot |-> Null, err |-> Null]

----------------------------------------------------------------------------
(* lib.rs *)

\* error.rs: enum DataStoreError { Unknown }
DataStoreError == {"Unknown"}

\* Result<(), DataStoreError>
Ok == [tag |-> "Ok", err |-> "none"]
Err(e) == [tag |-> "Err", err |-> e]

\* A temporary of a function body: the storage ptr refers to, and how long
\* it lasts: to the end of the let statement that creates it, or (its scope
\* being extended by the `&mut` or the cast it is the operand of) to the end
\* of the enclosing block.
Temporary(ptr, until) == [ptr |-> ptr, until |-> until]

\* The storage that exists while the native call of the body runs, and the
\* storage of the body that no longer exists once it has returned.
LiveDuringCall(temps) == {t.ptr : t \in {x \in temps : x.until = "block"}}
GoneAfterReturn(temps) == {t.ptr : t \in temps}

\* new_request with the handle slot initialised to null.
new_request_null_slot(n, u) ==
    [error |-> Ptr("slot", n), config |-> Ptr("cstr", 1), db |-> Null]

\* impl Default for Database, lines 19-26: the init request handed to the
\* engine.  config points into a CString temporary dropped at the end of
\* line 19; the error slot is a temporary holding the pointer into a second
\* dropped CString; db is the address of a `()` temporary.
Default_request(n, u) ==
    [error |-> Ptr("slot", n), config |-> Ptr("cstr", 1), db |-> u]
Default_errorSlot == Ptr("cstr", 2)

\* Lines 19-21: the temporaries behind the pointers of the request.
Default_temporaries(n, u) ==
    { Temporary(Ptr("cstr", 1), "statement"),   \* CString::default(), line 19
      Temporary(Ptr("cstr", 2), "statement"),   \* CString::default(), line 20
      Temporary(Ptr("slot", n), "block"),       \* &mut <..>.as_ptr(), line 20
      Temporary(u, "block") }                   \* &mut (), line 21

\* Lines 29-31: Self { db }.
Default_returns(req, resp) ==
    [error |-> req.error, config |-> req.config, db |-> resp.db]

\* Database::new, lines 38-45.
new_request(n, u) ==
    [error |-> Ptr("slot", n), config |-> Ptr("cstr", 1), db |-> u]
new_errorSlot == Ptr("cstr", 2)

\* Lines 38-40: the temporaries behind the pointers of the request.
new_temporaries(n, u) ==
    { Temporary(Ptr("cstr", 1), "statement"),   \* CString::default(), line 38
      Temporary(Ptr("cstr", 2), "statement"),   \* CString::default(), line 39
      Temporary(Ptr("slot", n), "block"),       \* &mut <..>.as_ptr(), line 39
      Temporary(u, "block") }                   \* &mut (), line 40

\* Lines 48-50: Self { db }.
new_returns(req, resp) ==
    [error |-> req.error, config |-> req.config, db |-> resp.db]

\* The Database a constructor returns: the request struct as the engine left
\* it.  errSlot is what the error-output slot held when the engine returned;
\* frame is the storage of the constructor's body, gone with its return;
\* scope tells whether the value is still owned by a caller.
MakeDatabase(via, struct, resp, temps) ==
    [via |-> via,
     db |-> struct,
     errSlot |-> resp.err,
     frame |-> GoneAfterReturn(temps),
     call |-> Len(calls) + 1,
     scope |-> "live"]

CanCall == ~crashed /\ Len(calls) < MaxCalls

\* The state after a constructor's native call returned resp.
Returned(via, call, database, resp) ==
    /\ databases' = Append(databases, database)
    /\ calls' = Append(calls, call)
    /\ nativeOpen' = IF resp.ok THEN nativeOpen \cup {resp.db} ELSE nativeOpen
    /\ crashed' = FALSE
    /\ last' = [op |-> via, ret |-> "Database"]

\* The state after the engine faulted on the dangling config pointer it was
\* handed: the process is gone and no Database was returned.
Faulted(via, req, errIn, live) ==
    /\ calls' = Append(calls,
                       InitCall(via, req, errIn, live,
                                [ok |-> FALSE, db |-> Null, err |-> Null]))
    /\ crashed' = TRUE
    /\ last' = [op |-> via, ret |-> "abort"]
    /\ UNCHANGED <<databases, nativeOpen>>

\* Default::default(), lines 18-32: build the request, call the engine once,
\* wrap the request.
Database_default ==
    /\ CanCall
    /\ Len(databases) < MaxDatabases
    /\ \E u \in UnitAddrs :
        LET n == Len(calls) + 1
            req == Default_request(n, u)
            temps == Default_temporaries(n, u)
            live == LiveDuringCall(temps) IN
        \/ \E resp \in ukv_database_init(req, Default_errorSlot) :
                Returned("default",
                         InitCall("default", req, Default_errorSlot, live,
                                  resp),
                         MakeDatabase("default", Default_returns(req, resp),
                                      resp, temps),
                         resp)
        \/ Faulted("default", req, Default_errorSlot, live)
    /\ UNCHANGED buildVars

\* Database::new(), lines 37-51: build the request, call the engine once,
\* wrap the request.
Database_new ==
    /\ CanCall
    /\ Len(databases) < MaxDatabases
    /\ \E u \in UnitAddrs :
        LET n == Len(calls) + 1
            req == new_request(n, u)
            temps == new_temporaries(n, u)
            live == LiveDuringCall(temps) IN
        \/ \E resp \in ukv_database_init(req, new_errorSlot) :
                Returned("new",
                         InitCall("new", req, new_errorSlot, live, resp),
                         MakeDatabase("new", new_returns(req, resp), resp,
                                      temps),
                         resp)
        \/ Faulted("new", req, new_errorSlot, live)
    /\ UNCHANGED buildVars

\* Database::contains_key(), line 53: empty body.
Database_contains_key ==
    /\ ~crashed
    /\ UNCHANGED <<databases, calls, nativeOpen, crashed, last>>
    /\ UNCHANGED buildVars

\* The pointer close() hands to the engine, line 57: the address of a fresh
\* `()` temporary.
close_pointer(u) == u

\* close_result with the error variant returned.
close_result_unknown == Err("Unknown")

\* The value close() returns, line 60.
close_result == Ok

\* Database::close(), lines 56-61: an associated function without receiver.
Database_close ==
    /\ CanCall
    /\ \E u \in UnitAddrs :
        LET p == close_pointer(u) IN
        /\ calls' = Append(calls, FreeCall(p))
        /\ nativeOpen' = ukv_database_free(p)
        /\ \* freeing an address the engine never allocated may fault
           crashed' \in IF p \in nativeOpen THEN {FALSE} ELSE {FALSE, TRUE}
        /\ last' = [op |-> "close",
                    ret |-> IF crashed' THEN "abort" ELSE close_result.tag]
    /\ UNCHANGED databases
    /\ UNCHANGED buildVars

\* A Database goes out of scope.  The type has no Drop implementation and
\* only raw-pointer fields (lines 13-15), so nothing runs.
Database_drop ==
    /\ ~crashed
    /\ \E i \in 1..Len(databases) :
        /\ databases[i].scope = "live"
        /\ databases' = [databases EXCEPT ![i].scope = "gone"]
    /\ UNCHANGED <<calls, nativeOpen, crashed, last>>
    /\ UNCHANGED buildVars

----------------------------------------------------------------------------
(* build.rs *)

\* Cargo features a build may enable.  build.rs consults three of them.
Features == {"umem", "leveldb", "rocksdb", "flight-client", "flight-server"}
Profiles == {"debug", "release"}

\* Exit statuses of an external command, as `{}` prints them: success and
\* failure; NotRun marks a command that was not spawned.
Success == "exit status: 0"
Failure == "exit status: 1"
ExitCodes == {Success, Failure}
NotRun == "not run"

\* get_parent_dir(), lines 9-16, when it succeeds.
src == "/ustore"

\* cfg!(feature = name) as used in `if cfg!(..) { 1 } else { 0 }`.
cfg(f, name) == IF name \in f THEN 1 ELSE 0

\* cmake_args with the LEVELDB definition driven by the rocksdb feature.
cmake_args_copied_feature(f) ==
    << "-DCMAKE_C_COMPILER=gcc",
       "-DCMAKE_CXX_COMPILER=g++",
       "-DUKV_BUILD_TESTS=0",
       "-DUKV_BUILD_BENCHMARKS=0",
       "-DUKV_BUILD_BUNDLES=1",
       "-DUKV_BUILD_ENGINE_UMEM=" \o ToString(cfg(f, "umem")),
       "-DUKV_BUILD_ENGINE_LEVELDB=" \o ToString(cfg(f, "rocksdb")),
       "-DUKV_BUILD_ENGINE_ROCKSDB=" \o ToString(cfg(f, "rocksdb")),
       "-DUKV_BUILD_API_FLIGHT_CLIENT=0",
       "-DUKV_BUILD_API_FLIGHT_SERVER=0",
       "-B ./build_release" >>

\* The arguments of the cmake command, lines 21-40.
cmake_args(f) ==
    << "-DCMAKE_C_COMPILER=gcc",
       "-DCMAKE_CXX_COMPILER=g++",
       "-DUKV_BUILD_TESTS=0",
       "-DUKV_BUILD_BENCHMARKS=0",
       "-DUKV_BUILD_BUNDLES=1",
       "-DUKV_BUILD_ENGINE_UMEM=" \o ToString(cfg(f, "umem")),
       "-DUKV_BUILD_ENGINE_LEVELDB=" \o ToString(cfg(f, "leveldb")),
       "-DUKV_BUILD_ENGINE_ROCKSDB=" \o ToString(cfg(f, "rocksdb")),
       "-DUKV_BUILD_API_FLIGHT_CLIENT=0",
       "-DUKV_BUILD_API_FLIGHT_SERVER=0",
       "-B ./build_release" >>

\* The arguments of the make command, lines 50-52.
make_args(n) == << "-j" \o ToString(n), "-C", "./build_release" >>

\* A line `cargo:key=kind=name` (or `cargo:key=name`) printed for cargo.
Directive(k, kind, n) == [key |-> k, kind |-> kind, name |-> n]

\* Line 77-80.
link_search_directive ==
    Directive("rustc-link-search", "native", src \o "/build_release/build/lib")

\* link_lib_directives with the rocksdb line printed without its #[cfg].
link_lib_directives_unguarded(f) ==
    (IF "umem" \in f
        THEN <<Directive("rustc-link-lib", "static", "umem_bundle")>> ELSE <<>>)
    \o <<Directive("rustc-link-lib", "static", "rocksdb_bundle")>>
    \o (IF "leveldb" \in f
        THEN <<Directive("rustc-link-lib", "static", "leveldb_bundle")>> ELSE <<>>)

\* Lines 81-86: one println! per #[cfg(feature = ..)].
link_lib_directives(f) ==
    (IF "umem" \in f
        THEN <<Directive("rustc-link-lib", "static", "umem_bundle")>> ELSE <<>>)
    \o (IF "rocksdb" \in f
        THEN <<Directive("rustc-link-lib", "static", "rocksdb_bundle")>> ELSE <<>>)
    \o (IF "leveldb" \in f
        THEN <<Directive("rustc-link-lib", "static", "leveldb_bundle")>> ELSE <<>>)

\* Line 104.
rerun_directive == Directive("rerun-if-changed", "", "wrapper.h")

\* `let src = get_parent_dir()?;`, line 19.
get_parent_dir ==
    /\ pc = "start"
    /\ \/ pc' = "cmake"
       \/ pc' = "failed"      \* current_dir() or canonicalize() failed
    /\ UNCHANGED <<flags, profile, header, ran, status, cmakeArgs, makeArgs,
                   cpus, stdoutLines, bindingsFile>>
    /\ UNCHANGED rtVars

\* What follows an external command that was spawned, lines 45-47, 57-59 and
\* 73-75: the status is printed, whatever it is; the captured output is
\* copied, and `?` returns when that copy fails.
after_command(next) ==
    \/ pc' = next
    \/ pc' = "failed"

\* Lines 20-47: configure.
run_cmake ==
    /\ pc = "cmake"
    /\ \/ \E code \in ExitCodes :
            /\ cmakeArgs' = cmake_args(flags)
            /\ status' = [status EXCEPT !["cmake"] = code]
            /\ ran' = Append(ran, "cmake")
            /\ after_command("make")
       \/ \* .expect("Could not spawn a `cmake` process")
          /\ pc' = "panicked"
          /\ UNCHANGED <<cmakeArgs, status, ran>>
    /\ UNCHANGED <<flags, profile, header, makeArgs, cpus, stdoutLines,
                   bindingsFile>>
    /\ UNCHANGED rtVars

\* Lines 49-59: compile.
run_make ==
    /\ pc = "make"
    /\ \/ \E code \in ExitCodes :
            /\ makeArgs' = make_args(cpus)
            /\ status' = [status EXCEPT !["make"] = code]
            /\ ran' = Append(ran, "make")
            /\ after_command("gcc")
       \/ \* .expect("Could not spawn a `make` process")
          /\ pc' = "panicked"
          /\ UNCHANGED <<makeArgs, status, ran>>
    /\ UNCHANGED <<flags, profile, header, cmakeArgs, cpus, stdoutLines,
                   bindingsFile>>
    /\ UNCHANGED rtVars

\* run_gcc with the expansion started where the compile step should run.
run_gcc_before_make ==
    /\ pc = "make"
    /\ \E code \in ExitCodes :
            /\ status' = [status EXCEPT !["gcc"] = code]
            /\ ran' = Append(ran, "gcc")
            /\ header' \in IF code = Success THEN {"fresh"} ELSE {header, "missing"}
            /\ after_command("link")
    /\ UNCHANGED <<flags, profile, cmakeArgs, makeArgs, cpus, stdoutLines,
                   bindingsFile>>
    /\ UNCHANGED rtVars

\* Lines 61-75: gcc -E wrapper.h -o wrapper.expanded.h.  A successful run
\* leaves a fresh expansion; a failed one leaves the file as it was or
\* removes it.
run_gcc ==
    /\ pc = "gcc"
    /\ \/ \E code \in ExitCodes :
            /\ status' = [status EXCEPT !["gcc"] = code]
            /\ ran' = Append(ran, "gcc")
            /\ header' \in IF code = Success THEN {"fresh"} ELSE {header, "missing"}
            /\ after_command("link")
       \/ \* .expect("Could not spawn a `gcc` expansion process")
          /\ pc' = "panicked"
          /\ UNCHANGED <<header, status, ran>>
    /\ UNCHANGED <<flags, profile, cmakeArgs, makeArgs, cpus, stdoutLines,
                   bindingsFile>>
    /\ UNCHANGED rtVars

\* Lines 77-86: the link directives.
emit_link ==
    /\ pc = "link"
    /\ stdoutLines' = stdoutLines \o <<link_search_directive>>
                                  \o link_lib_directives(flags)
    /\ ran' = Append(ran, "link")
    /\ pc' = "bindgen"
    /\ UNCHANGED <<flags, profile, header, status, cmakeArgs, makeArgs, cpus,
                   bindingsFile>>
    /\ UNCHANGED rtVars

\* Lines 88-101: OUT_DIR is read, then bindgen parses wrapper.expanded.h.
\* generate() cannot succeed without the file and may reject the one it
\* finds.
run_bindgen ==
    /\ pc = "bindgen"
    /\ \/ \* std::env::var("OUT_DIR")? failed
          /\ pc' = "failed"
          /\ UNCHANGED ran
       \/ /\ ran' = Append(ran, "bindgen")
          /\ \/ header # "missing" /\ pc' = "write"
             \/ pc' = "failed"
    /\ UNCHANGED <<flags, profile, header, status, cmakeArgs, makeArgs, cpus,
                   stdoutLines, bindingsFile>>
    /\ UNCHANGED rtVars

\* Lines 103-105: bindings.rs is written, then the rerun directive printed.
write_bindings ==
    /\ pc = "write"
    /\ \/ /\ bindingsFile' = "written"
          /\ stdoutLines' = Append(stdoutLines, rerun_directive)
          /\ ran' = Append(ran, "write")
          /\ pc' = "done"
       \/ \* write_to_file(..)? failed
          /\ pc' = "failed"
          /\ UNCHANGED <<bindingsFile, stdoutLines, ran>>
    /\ UNCHANGED <<flags, profile, header, status, cmakeArgs, makeArgs, cpus>>
    /\ UNCHANGED rtVars

----------------------------------------------------------------------------
(* Specifications *)

RtInit ==
    /\ databases = <<>>
    /\ calls = <<>>
    /\ nativeOpen = {}
    /\ crashed = FALSE
    /\ last = [op |-> "none", ret |-> "unit"]

NoStatus == [c \in {"cmake", "make", "gcc"} |-> NotRun]

\* The build script is not running.
BuildIdle ==
    /\ flags = {}
    /\ profile = "debug"
    /\ header = "fresh"
    /\ pc = "idle"
    /\ ran = <<>>
    /\ status = NoStatus
    /\ cmakeArgs = <<>>
    /\ makeArgs = <<>>
    /\ cpus = 1
    /\ stdoutLines = <<>>
    /\ bindingsFile = "written"

\* cargo starts the build script.
BuildInit ==
    /\ flags \in SUBSET Features
    /\ profile \in Profiles
    /\ header \in {"missing", "stale"}
    /\ pc = "start"
    /\ ran = <<>>
    /\ status = NoStatus
    /\ cmakeArgs = <<>>
    /\ makeArgs = <<>>
    /\ cpus \in 1..MaxCpus
    /\ stdoutLines = <<>>
    /\ bindingsFile = "absent"

Init == RtInit /\ BuildIdle

Next ==
    \/ Database_new
    \/ Database_default
    \/ Database_contains_key
    \/ Database_close
    \/ Database_drop

Spec == Init /\ [][Next]_vars

BuildNext ==
    \/ get_parent_dir
    \/ run_cmake
    \/ run_make
    \/ run_gcc
    \/ emit_link
    \/ run_bindgen
    \/ write_bindings

BuildSpecInit == RtInit /\ BuildInit

BuildSpec == BuildSpecInit /\ [][BuildNext]_vars

----------------------------------------------------------------------------
(* Vocabulary of the properties *)

InitCalls == {i \in 1..Len(calls) : calls[i].fn = "init"}
FreeCalls == {i \in 1..Len(calls) : calls[i].fn = "free"}

\* Init calls that opened a database: the engine handed out a handle.
OpenedCalls == {i \in InitCalls : IsHandle(calls[i].out)}

\* Database values whose init call opened a database.
Opened == {i \in 1..Len(databases) : databases[i].call \in OpenedCalls}

\* Free calls made after the k-th native call.
FreeCallsAfter(k) == {j \in FreeCalls : j > k}

Executed(step) == \E i \in 1..Len(ran) : ran[i] = step

\* The storage backends among the features, and the library of each.
StorageBackends == {"umem", "leveldb", "rocksdb"}
FrontEnds == {"flight-client", "flight-server"}
BackendLibrary(t) == t \o "_bundle"

\* The libraries named by the link directives printed so far.
LinkLibLines == {i \in 1..Len(stdoutLines) :
                    stdoutLines[i].key = "rustc-link-lib"}
LinkSet == {stdoutLines[i].name : i \in LinkLibLines}

\* The native build definition named after a toggle.
Definition(t) ==
    CASE t = "umem" -> "UKV_BUILD_ENGINE_UMEM"
      [] t = "leveldb" -> "UKV_BUILD_ENGINE_LEVELDB"
      [] t = "rocksdb" -> "UKV_BUILD_ENGINE_ROCKSDB"
      [] t = "flight-client" -> "UKV_BUILD_API_FLIGHT_CLIENT"
      [] t = "flight-server" -> "UKV_BUILD_API_FLIGHT_SERVER"
Define(t, on) == "-D" \o Definition(t) \o "=" \o (IF on THEN "1" ELSE "0")
CmakeArgSet == {cmakeArgs[i] : i \in 1..Len(cmakeArgs)}

\* cmake was told that toggle t is `on`, and was not told the opposite.
Configured(t, on) ==
    /\ Define(t, on) \in CmakeArgSet
    /\ Define(t, ~on) \notin CmakeArgSet

----------------------------------------------------------------------------
(* Properties *)

\* C1: the native free entry point is invoked at most once per handle: once
\* a database has been opened, the free calls made since never outnumber the
\* handles the engine has handed out, so a close on an already closed handle
\* does not reach the engine again.
C1_FreeAtMostOncePerHandle ==
    \A i \in OpenedCalls :
        (\A k \in OpenedCalls : i <= k) =>
            Cardinality(FreeCallsAfter(i)) <= Cardinality(OpenedCalls)

\* C2: after init followed by close the host holds no reusable handle: when
\* the one Database that was constructed was opened and has been followed by
\* a close, it is either gone or its handle slot is null.
C2_NoReusableHandleAfterClose ==
    (Len(databases) = 1 /\ 1 \in Opened
        /\ FreeCallsAfter(databases[1].call) # {}) =>
        \/ databases[1].scope = "gone"
        \/ databases[1].db.db = Null

\* C3: close hands to the native free entry point exactly the pointer the
\* native init entry point wrote into the handle slot of a Database: every
\* free call made after a database was opened carries a handle issued by an
\* earlier init call.
C3_CloseFreesOwnedPointer ==
    \A j \in FreeCalls :
        (\E i \in OpenedCalls : i < j) =>
            \E i \in OpenedCalls : i < j /\ calls[j].arg = calls[i].out

\* C4: when the native init leaves the error slot non-null, init fails: no
\* Database is produced, the caller gets a typed error, and free is not
\* called for it.
C4_InitFailureIsReturned ==
    /\ \A i \in 1..Len(databases) : databases[i].errSlot = Null
    /\ \A i \in InitCalls :
          (calls[i].err # Null /\ i = Len(calls)) => last.ret = "Err"

\* C5: every successful open is paired with exactly one close before the
\* Database's lifetime ends: once an opened Database has gone out of scope,
\* the native free entry point has been called exactly once with its handle.
C5_ReleasedWhenOutOfScope ==
    \A i \in Opened :
        databases[i].scope = "gone" =>
            Cardinality({j \in FreeCalls :
                            calls[j].arg = calls[databases[i].call].out}) = 1

\* C6: after any init, a non-null error slot implies a null handle slot in
\* the init request the Database holds.
C6_ErrorImpliesNullHandle ==
    \A i \in 1..Len(databases) :
        databases[i].errSlot # Null => databases[i].db.db = Null

\* C7: a non-zero exit of cmake or make aborts the build: no later step is
\* executed and the build does not end in success.
C7_AbortOnBuildFailure ==
    /\ status["cmake"] = Failure =>
          /\ \A s \in {"make", "gcc", "link", "bindgen", "write"} : ~Executed(s)
          /\ pc # "done"
    /\ status["make"] = Failure =>
          /\ \A s \in {"gcc", "link", "bindgen", "write"} : ~Executed(s)
          /\ pc # "done"

\* C8: when gcc -E fails, the binding generator is never run and no bindings
\* file is written in that build.
C8_AbortOnPreprocessFailure ==
    status["gcc"] = Failure =>
        /\ ~Executed("bindgen")
        /\ ~Executed("write")
        /\ bindingsFile # "written"

\* C9: with at least one storage backend enabled, the link directives name
\* exactly the libraries of the enabled backends: no library of a disabled
\* backend is ever printed, none is printed twice, and once the directives
\* are out every enabled backend has its library in the link set.
C9_LinkSetIsEnabledBackends ==
    (flags \cap StorageBackends # {}) =>
        /\ LinkSet \subseteq {BackendLibrary(t) : t \in flags \cap StorageBackends}
        /\ Cardinality(LinkLibLines) = Cardinality(LinkSet)
        /\ Executed("link") =>
              LinkSet = {BackendLibrary(t) : t \in flags \cap StorageBackends}

\* The link directives were printed for a build with two storage backends
\* enabled, one disabled, and a front end enabled.
C9_Witness ==
    /\ Executed("link")
    /\ Cardinality(flags \cap StorageBackends) = 2
    /\ "flight-server" \in flags
    /\ Cardinality(LinkSet) = 2

StepOrder == <<"cmake", "make", "gcc", "bindgen">>
Position(step) == CHOOSE i \in 1..Len(ran) : ran[i] = step

\* step a was executed, and finished, before step b was started.
FinishedBefore(a, b) ==
    /\ Executed(a)
    /\ Position(a) < Position(b)
    /\ a \in DOMAIN status => status[a] \in ExitCodes

\* C11: the steps happen in the order configure, compile, header
\* preprocessing, binding generation: a step that was executed was started
\* after each step before it in that order had finished; in particular the
\* preprocessing never starts before make has finished and bindgen never
\* starts before the preprocessing has finished.
C11_StepsInOrder ==
    \A j \in 1..Len(StepOrder) :
        Executed(StepOrder[j]) =>
            \A i \in 1..(j - 1) : FinishedBefore(StepOrder[i], StepOrder[j])

\* A build in which all four steps were executed.
C11_Witness ==
    /\ \A j \in 1..Len(StepOrder) : Executed(StepOrder[j])
    /\ pc = "done"

\* The native build type the configure step is told for a host profile.
BuildTypeArg(p) ==
    IF p = "debug" THEN "-DCMAKE_BUILD_TYPE=Debug"
    ELSE "-DCMAKE_BUILD_TYPE=Release"

\* C12: the host build profile is mapped to the native optimization level:
\* the configure step is told the build type of the profile, and not the
\* other one.
C12_ProfileMapped ==
    Executed("cmake") =>
        /\ BuildTypeArg(profile) \in CmakeArgSet
        /\ \A p \in Profiles \ {profile} : BuildTypeArg(p) \notin CmakeArgSet

\* C13: close is infallible at this layer: whatever was done before, a close
\* never hands an error value to its caller, and every close that returns
\* returns Ok.
C13_CloseReturnsOk ==
    last.op = "close" =>
        /\ last.ret # "Err"
        /\ ~crashed => last.ret = "Ok"

\* A close returned after an earlier close and after a Database was opened.
C13_Witness ==
    /\ last.op = "close"
    /\ last.ret = "Ok"
    /\ Cardinality(FreeCalls) >= 2
    /\ Opened # {}

\* C16: the native free entry point is invoked only from state Open: every
\* free call comes after an init call that opened a database.
C16_FreeOnlyWhenOpen ==
    \A j \in FreeCalls : \E i \in OpenedCalls : i < j

\* The request and the response of the init call behind a Database, as the
\* engine saw them.
RequestOf(d) ==
    [error |-> calls[d.call].error, config |-> calls[d.call].config,
     db |-> calls[d.call].arg]
ResponseOf(d) ==
    [ok |-> IsHandle(calls[d.call].out), db |-> calls[d.call].slot,
     err |-> calls[d.call].err]

\* C15: during the native init call every pointer of the request (config
\* string, error-output slot, handle-output slot) refers to storage that is
\* allocated for the whole call, and the returned Database keeps no pointer
\* to storage that ended with the constructor.
C15_RequestPointersLive ==
    /\ \A i \in InitCalls :
          {calls[i].config, calls[i].error, calls[i].arg} \subseteq calls[i].live
    /\ \A k \in 1..Len(databases) :
          {databases[k].db.config, databases[k].db.error, databases[k].db.db}
              \cap databases[k].frame = {}

\* A Database made by one constructor is the one the other constructor makes
\* from the same native response: same request, same error slot on entry,
\* same storage alive during the call, same struct returned.
SameAsOther(d) ==
    LET req == RequestOf(d)
        resp == ResponseOf(d) IN
    IF d.via = "new"
    THEN /\ req \in {Default_request(d.call, u) : u \in UnitAddrs}
         /\ calls[d.call].errIn = Default_errorSlot
         /\ calls[d.call].live =
                LiveDuringCall(Default_temporaries(d.call, req.db))
         /\ d.db = Default_returns(req, resp)
         /\ d.frame = GoneAfterReturn(Default_temporaries(d.call, req.db))
    ELSE /\ req \in {new_request(d.call, u) : u \in UnitAddrs}
         /\ calls[d.call].errIn = new_errorSlot
         /\ calls[d.call].live =
                LiveDuringCall(new_temporaries(d.call, req.db))
         /\ d.db = new_returns(req, resp)
         /\ d.frame = GoneAfterReturn(new_temporaries(d.call, req.db))

\* The native calls made by the constructors.
ConstructorCalls == {i \in 1..Len(calls) : calls[i].by \in {"new", "default"}}

\* Every constructor made exactly one native call, an init call: each call
\* made by a constructor is an init call, it belongs to the one Database that
\* constructor returned (or the process died in it), and each Database has
\* one such call.
OneInitCallEach ==
    /\ \A i \in ConstructorCalls :
          /\ calls[i].fn = "init"
          /\ \/ \E k \in 1..Len(databases) :
                    databases[k].call = i /\ databases[k].via = calls[i].by
             \/ (crashed /\ i = Len(calls))
    /\ \A j, k \in 1..Len(databases) :
          /\ databases[k].call \in ConstructorCalls
          /\ databases[j].call = databases[k].call => j = k

\* C17: Database::new() and Database::default() are equivalent: each makes
\* exactly one native call, an init call, with a request built the same way,
\* and returns the same Database for the same native response.
C17_NewEquivalentToDefault ==
    /\ \A k \in 1..Len(databases) : SameAsOther(databases[k])
    /\ OneInitCallEach

\* Both constructors were used and got the same response from the engine.
C17_Witness ==
    \E j, k \in 1..Len(databases) :
        /\ databases[j].via = "new"
        /\ databases[k].via = "default"
        /\ calls[databases[j].call].err = calls[databases[k].call].err
        /\ IsHandle(databases[j].db.db)
        /\ IsHandle(databases[k].db.db)

====
